---- MODULE Spec2Model ----
(***************************************************************************)
(* Document assembly of svend4/data10: the rule engine, the template       *)
(* section gate and AssemblyService.assemble_document over the Mongo       *)
(* stores (templates, rules, blocks, documents).  Spec follows one         *)
(* assembly from request to response, EngineSpec direct calls of the rule  *)
(* engine, ConcurrentSpec assemblies running step by step next to each     *)
(* other and to block updates.  GraphSpec follows the block graph of       *)
(* Neo4jRepository and BlockService, ReducerSpec RuleEngine.apply_actions, *)
(* LimiterSpec the in-memory RateLimiter and VersionSpec the calls of      *)
(* VersionService on the block_versions collection.                        *)
(***************************************************************************)
EXTENDS Integers, Sequences, FiniteSets, TLC

VARIABLES templates, rules, blocks, documents, request, response,
          evaluation_context, result, calls,
          graph, deleted, related,
          memory_store, clock, history,
          versions, version_calls,
          input_state, applied

assembly_vars ==
    <<templates, rules, documents, request, response,
      evaluation_context, result, calls>>

graph_vars == <<graph, deleted, related>>

limiter_vars == <<memory_store, clock, history>>

version_vars == <<versions, version_calls>>

reducer_vars == <<input_state, applied>>

service_vars == <<graph_vars, limiter_vars, version_vars, reducer_vars>>

vars == <<assembly_vars, blocks, service_vars>>

(***************************************************************************)
(* Bounds of the explored inputs.                                          *)
(***************************************************************************)
MaxSections == 2
MaxTemplateBlocks == 3
MaxConditions == 1
MaxActions == 1
MaxGroupConditions == 2
MaxRuleActions == 2

(***************************************************************************)
(* Python values of the untyped context / condition maps.  A value is a    *)
(* tagged record; Absent marks a key that the dict does not hold.          *)
(***************************************************************************)
Null == [t |-> "null", v |-> 0]
IntV(n) == [t |-> "int", v |-> n]
Absent == [t |-> "absent", v |-> 0]

Keys == {"flag", "degree"}
BlockIds == {"b1", "b2"}
TemplateIds == {"tpl"}
MissingTemplateId == "does-not-exist"
DocIds == {"doc_1", "doc_2"}
RuleIds == {"r1", "r2"}

ContextValues == {Null, IntV(1)}
Contexts == [Keys -> ContextValues \cup {Absent}]
EmptyContext == [k \in Keys |-> Absent]

SeqsUpTo(S, n) == UNION {[1..k -> S] : k \in 0..n}
Range(s) == {s[i] : i \in DOMAIN s}

\* dict.get(key): None when the key is missing
DictGet_without_default(d, k) == d[k]

DictGet(d, k) == IF d[k] = Absent THEN Null ELSE d[k]
\* dict.items() keys
DictKeys(d) == {k \in DOMAIN d : d[k] # Absent}

\* a list of scalar values
ListV(s) == [t |-> "list", v |-> s]
\* a tuple of scalar values
TupleV(s) == [t |-> "tuple", v |-> s]
\* a str, as the sequence of its code points
StrV(s) == [t |-> "str", v |-> s]

\* the orderings of a set that a Python list(set(...)) or an unsorted
\* cursor may produce
Orderings(S) == {s \in [1..Cardinality(S) -> S] : Range(s) = S}

RECURSIVE Concat(_)
Concat(ss) == IF ss = <<>> THEN <<>> ELSE Head(ss) \o Concat(Tail(ss))

(***************************************************************************)
(* app/models/rule.py                                                      *)
(***************************************************************************)
ComparisonOperators == {"==", "!=", ">", ">=", "<", "<=", "in", "not_in", "contains"}
RuleOperator == ComparisonOperators \cup {"and", "or"}
ActionTypes == {"include_block", "exclude_block", "set_variable"}

(***************************************************************************)
(* Python comparison semantics on the modelled value types: None, bool,    *)
(* int, str, and list and tuple of scalars.  A bool is an int: False == 0  *)
(* and True == 1.                                                          *)
(***************************************************************************)
BoolV(b) == [t |-> "bool", v |-> IF b THEN 1 ELSE 0]
Numeric(a) == a.t \in {"int", "bool"}

PyEq(a, b) ==
    IF Numeric(a) /\ Numeric(b) THEN a.v = b.v ELSE a.t = b.t /\ a.v = b.v

RECURSIVE SeqLess(_, _)
SeqLess(x, y) ==
    IF y = <<>> THEN FALSE
    ELSE IF x = <<>> THEN TRUE
    ELSE IF Head(x) # Head(y) THEN Head(x) < Head(y)
    ELSE SeqLess(Tail(x), Tail(y))

\* int < int and str < str are defined, every other pair of scalars raises
ScalarOrderable(a, b) ==
    (Numeric(a) /\ Numeric(b)) \/ (a.t = b.t /\ a.t = "str")
ScalarLess(a, b) == IF Numeric(a) THEN a.v < b.v ELSE SeqLess(a.v, b.v)

\* list < list and tuple < tuple compare the first pair of unequal elements,
\* else the lengths
FirstDifference(x, y) ==
    {i \in DOMAIN x \cap DOMAIN y :
        /\ ~PyEq(x[i], y[i])
        /\ \A j \in 1..(i - 1) : PyEq(x[j], y[j])}
ListOrderable(x, y) ==
    \A i \in FirstDifference(x, y) : ScalarOrderable(x[i], y[i])
ListLess(x, y) ==
    IF FirstDifference(x, y) = {} THEN Len(x) < Len(y)
    ELSE \A i \in FirstDifference(x, y) : ScalarLess(x[i], y[i])

\* a < b, a > b ... raise TypeError unless Orderable(a, b)
Orderable(a, b) ==
    \/ Numeric(a) /\ Numeric(b)
    \/ /\ a.t = b.t
       /\ a.t \in {"str", "list", "tuple"}
       /\ a.t \in {"list", "tuple"} => ListOrderable(a.v, b.v)

PyLess(a, b) ==
    IF a.t \in {"list", "tuple"} THEN ListLess(a.v, b.v) ELSE ScalarLess(a, b)

\* x in container: raises TypeError unless the container is a list, a tuple
\* or a str, and for a str container unless x is a str too
Iterable(c) == c.t \in {"list", "tuple", "str"}
PyIn_raises(x, c) == ~Iterable(c) \/ (c.t = "str" /\ x.t # "str")

IsSubstring(x, y) ==
    \E i \in 0..(Len(y) - Len(x)) : SubSeq(y, i + 1, i + Len(x)) = x

PyIn(x, c) ==
    IF c.t \in {"list", "tuple"} THEN \E i \in DOMAIN c.v : PyEq(c.v[i], x)
    ELSE c.t = "str" /\ x.t = "str" /\ IsSubstring(x.v, c.v)

(***************************************************************************)
(* RuleEngine.evaluate_condition: whether it raises, and what it returns   *)
(* when it does not.                                                       *)
(***************************************************************************)
evaluate_condition_raises(condition, context) ==
    LET field_value == DictGet(context, condition.field)
        operator == condition.operator
        target_value == condition.value
    IN  IF field_value = Null THEN FALSE
        ELSE IF operator \in {">", ">=", "<", "<="}
             THEN ~Orderable(field_value, target_value)
        ELSE IF operator \in {"in", "not_in"}
             THEN PyIn_raises(field_value, target_value)
        ELSE IF operator = "contains"
             THEN field_value.t = "str" /\ PyIn_raises(target_value, field_value)
        ELSE FALSE

evaluate_condition_fail_open(condition, context) ==
    LET field_value == DictGet(context, condition.field)
    IN  field_value # Null /\ condition.operator \notin ComparisonOperators

evaluate_condition(condition, context) ==
    LET field_value == DictGet(context, condition.field)
        operator == condition.operator
        target_value == condition.value
    IN  IF field_value = Null THEN FALSE
        ELSE IF operator = "==" THEN PyEq(field_value, target_value)
        ELSE IF operator = "!=" THEN ~PyEq(field_value, target_value)
        ELSE IF operator = ">" THEN PyLess(target_value, field_value)
        ELSE IF operator = ">=" THEN ~PyLess(field_value, target_value)
        ELSE IF operator = "<" THEN PyLess(field_value, target_value)
        ELSE IF operator = "<=" THEN ~PyLess(target_value, field_value)
        ELSE IF operator = "in" THEN PyIn(field_value, target_value)
        ELSE IF operator = "not_in" THEN ~PyIn(field_value, target_value)
        ELSE IF operator = "contains"
             THEN IF field_value.t = "str" THEN PyIn(target_value, field_value)
                  ELSE IF field_value.t \in {"list", "tuple"}
                       THEN PyIn(target_value, field_value)
                  ELSE FALSE
        ELSE FALSE

(***************************************************************************)
(* RuleEngine.evaluate_condition_group                                     *)
(***************************************************************************)
evaluate_condition_group_raises(condition_group, context) ==
    \E i \in DOMAIN condition_group.conditions :
        evaluate_condition_raises(condition_group.conditions[i], context)

evaluate_condition_group_without_empty_check(condition_group, context) ==
    LET conditions == condition_group.conditions
        results == [i \in DOMAIN conditions |-> evaluate_condition(conditions[i], context)]
    IN  IF condition_group.operator = "and"
        THEN \A i \in DOMAIN results : results[i]
        ELSE IF condition_group.operator = "or"
             THEN \E i \in DOMAIN results : results[i]
        ELSE FALSE

evaluate_condition_group(condition_group, context) ==
    LET conditions == condition_group.conditions
        results == [i \in DOMAIN conditions |-> evaluate_condition(conditions[i], context)]
    IN  IF conditions = <<>> THEN TRUE
        ELSE IF condition_group.operator = "and"
             THEN \A i \in DOMAIN results : results[i]
        ELSE IF condition_group.operator = "or"
             THEN \E i \in DOMAIN results : results[i]
        ELSE FALSE

(***************************************************************************)
(* RuleEngine.evaluate_rule                                                *)
(***************************************************************************)
evaluate_rule_raises(rule, context) ==
    rule.enabled /\ evaluate_condition_group_raises(rule.condition_group, context)

evaluate_rule_ignoring_enabled(rule, context) ==
    LET matched == evaluate_condition_group(rule.condition_group, context)
    IN  [rule_id |-> rule.id, matched |-> matched,
         actions |-> IF matched THEN rule.actions ELSE <<>>]

evaluate_rule(rule, context) ==
    IF ~rule.enabled
    THEN [rule_id |-> rule.id, matched |-> FALSE, actions |-> <<>>]
    ELSE LET matched == evaluate_condition_group(rule.condition_group, context)
         IN  [rule_id |-> rule.id, matched |-> matched,
              actions |-> IF matched THEN rule.actions ELSE <<>>]

(***************************************************************************)
(* MongoRepository.get_enabled_rules: the enabled rules by descending      *)
(* priority; the cursor orders equal priorities arbitrarily.               *)
(***************************************************************************)
get_enabled_rules(ruleStore) ==
    LET enabled == {ruleStore[r] : r \in {x \in DOMAIN ruleStore : ruleStore[x].enabled}}
    IN  {s \in Orderings(enabled) :
            \A i, j \in DOMAIN s : i < j => s[i].priority >= s[j].priority}

(***************************************************************************)
(* RuleEngine.evaluate_all_rules / get_matched_actions over the list the   *)
(* store returned.                                                         *)
(***************************************************************************)
evaluate_all_rules_raises(ruleList, context) ==
    \E i \in DOMAIN ruleList : evaluate_rule_raises(ruleList[i], context)

evaluate_all_rules(ruleList, context) ==
    [i \in DOMAIN ruleList |-> evaluate_rule(ruleList[i], context)]

get_matched_actions(ruleList, context) ==
    LET results == evaluate_all_rules(ruleList, context)
    IN  Concat([i \in DOMAIN results |->
                  IF results[i].matched THEN results[i].actions ELSE <<>>])

(***************************************************************************)
(* RuleEngine.get_blocks_to_include: list(set(block_ids)), every order of  *)
(* the set being a possible return value.                                  *)
(***************************************************************************)
included_block_ids_wrong_type(ruleList, context) ==
    LET actions == get_matched_actions(ruleList, context)
    IN  {actions[i].target : i \in {j \in DOMAIN actions : actions[j].type = "exclude_block"}}

included_block_ids(ruleList, context) ==
    LET actions == get_matched_actions(ruleList, context)
    IN  {actions[i].target : i \in {j \in DOMAIN actions : actions[j].type = "include_block"}}

get_blocks_to_include_no_set(ruleList, context) ==
    LET actions == get_matched_actions(ruleList, context)
        chosen == SelectSeq(actions, LAMBDA a : a.type = "include_block")
    IN  {[i \in DOMAIN chosen |-> chosen[i].target]}

get_blocks_to_include(ruleList, context) ==
    Orderings(included_block_ids(ruleList, context))

(***************************************************************************)
(* AssemblyService._check_section_conditions and the section gate of       *)
(* assemble_document (an empty condition map is falsy and skips the check) *)
(***************************************************************************)
check_section_conditions(conditions, context) ==
    \A key \in DictKeys(conditions) :
        PyEq(DictGet(context, key), conditions[key])

section_included(section, context) ==
    IF DictKeys(section.conditions) # {}
    THEN check_section_conditions(section.conditions, context)
    ELSE TRUE

template_block_ids_appended_in_front(template, context) ==
    LET n == Len(template.sections)
    IN  Concat([i \in DOMAIN template.sections |->
                  IF section_included(template.sections[n + 1 - i], context)
                  THEN template.sections[n + 1 - i].blocks
                  ELSE <<>>])

\* blocks_to_include after the loop over template.sections
template_block_ids(template, context) ==
    Concat([i \in DOMAIN template.sections |->
              IF section_included(template.sections[i], context)
              THEN template.sections[i].blocks
              ELSE <<>>])

\* list(dict.fromkeys(xs)): first occurrence of each element, in order
dict_fromkeys_keep_duplicates(xs) == xs

RECURSIVE dict_fromkeys(_)
dict_fromkeys(xs) ==
    IF xs = <<>> THEN <<>>
    ELSE LET init == dict_fromkeys(SubSeq(xs, 1, Len(xs) - 1))
             last == xs[Len(xs)]
         IN  IF last \in Range(init) THEN init ELSE Append(init, last)

(***************************************************************************)
(* MongoRepository.get_block via BlockService.get_block                    *)
(***************************************************************************)
NoBlock == [id |-> "", content |-> "", level |-> 0]

get_block_or_stub(blockStore, block_id) ==
    IF block_id \in DOMAIN blockStore THEN blockStore[block_id]
    ELSE [id |-> block_id, content |-> "", level |-> 1]

get_block(blockStore, block_id) ==
    IF block_id \in DOMAIN blockStore THEN blockStore[block_id] ELSE NoBlock

\* the enumerate(unique_blocks) loop of assemble_document
build_document_blocks(unique_blocks, blockStore) ==
    LET positions == SelectSeq([i \in 1..Len(unique_blocks) |-> i],
                               LAMBDA i : get_block(blockStore, unique_blocks[i]) # NoBlock)
    IN  [k \in DOMAIN positions |->
           LET block == get_block(blockStore, unique_blocks[positions[k]])
           IN  [block_id |-> block.id,
                content |-> block.content,
                order |-> positions[k] - 1,
                level |-> block.level]]

(***************************************************************************)
(* MongoRepository.create_document / get_document.  insert_one raises on   *)
(* a driver failure or on the unique index over "id"; create_document      *)
(* catches every exception and returns False.                              *)
(***************************************************************************)
insert_succeeds(docStore, document, driver_ok) ==
    driver_ok /\ document.id \notin DOMAIN docStore

create_document(docStore, document, driver_ok) ==
    IF insert_succeeds(docStore, document, driver_ok)
    THEN [d \in DOMAIN docStore \cup {document.id} |->
            IF d = document.id THEN document ELSE docStore[d]]
    ELSE docStore

NoDocument ==
    [id |-> "", title |-> "", template_id |-> "", status |-> "",
     blocks |-> <<>>, context |-> EmptyContext]

document_found(docStore, document_id) == document_id \in DOMAIN docStore
get_document(docStore, document_id) ==
    IF document_found(docStore, document_id) THEN docStore[document_id] ELSE NoDocument

(***************************************************************************)
(* MongoRepository.get_template                                            *)
(***************************************************************************)
NoTemplate == [id |-> "", name |-> "", sections |-> <<>>]

get_template_or_empty(templateStore, template_id) ==
    IF template_id \in DOMAIN templateStore THEN templateStore[template_id]
    ELSE [id |-> template_id, name |-> "", sections |-> <<>>]

get_template(templateStore, template_id) ==
    IF template_id \in DOMAIN templateStore THEN templateStore[template_id] ELSE NoTemplate

(***************************************************************************)
(* Requests and responses                                                  *)
(***************************************************************************)
NoTitle == ""
Titles == {NoTitle, "Widerspruch"}

Requests ==
    [template_id : TemplateIds \cup {MissingTemplateId},
     context : Contexts,
     title : Titles]

NoRequest == [template_id |-> "", context |-> EmptyContext, title |-> NoTitle]

NoResponse ==
    [status |-> "none", document |-> NoDocument,
     blocks_included |-> 0, rules_applied |-> 0]

\* the outcome of a direct rule engine call
NoEvaluation == [rule_id |-> "", matched |-> FALSE, actions |-> <<>>]
NoResult ==
    [call |-> "none", rule_id |-> "", index |-> 0, raised |-> FALSE,
     returned |-> FALSE, evaluation |-> NoEvaluation, block_ids |-> <<>>,
     results |-> <<>>]

Raised(error) ==
    [status |-> error, document |-> NoDocument,
     blocks_included |-> 0, rules_applied |-> 0]

(***************************************************************************)
(* BlockService.update_block / delete_block on the block store.            *)
(* update_dict holds the fields of the BlockUpdate that are not None; an   *)
(* empty update_dict and a missing block leave the store as it is.         *)
(***************************************************************************)
update_block(blockStore, block_id, update_dict) ==
    IF DOMAIN update_dict = {} \/ block_id \notin DOMAIN blockStore
    THEN blockStore
    ELSE LET current_block == blockStore[block_id]
             updated_block == [f \in DOMAIN current_block |->
                                 IF f \in DOMAIN update_dict THEN update_dict[f]
                                 ELSE current_block[f]]
         IN  [blockStore EXCEPT ![block_id] = updated_block]

delete_block(blockStore, block_id) ==
    [b \in DOMAIN blockStore \ {block_id} |-> blockStore[b]]

NoUpdate == [f \in {} |-> 0]
BlockUpdates == {NoUpdate, [content |-> "Neufassung", level |-> 3]}

(***************************************************************************)
(* The pieces of assemble_document that a call executes step by step, and  *)
(* the local state of a call.                                              *)
(***************************************************************************)
\* DocumentBlock(block_id=..., content=..., order=idx, level=...)
DocumentBlock_default_level(block, idx) ==
    [block_id |-> block.id, content |-> block.content, order |-> idx, level |-> 1]

DocumentBlock(block, idx) ==
    [block_id |-> block.id, content |-> block.content, order |-> idx, level |-> block.level]

\* Document(id=..., title=..., template_id=..., status=ASSEMBLED, ...)
Document(req, template, document_blocks, uuid) ==
    [id |-> uuid,
     title |-> IF req.title # NoTitle THEN req.title
               ELSE "Document from " \o template.name,
     template_id |-> req.template_id,
     status |-> "assembled",
     blocks |-> document_blocks,
     context |-> req.context]

Calls == {"c1", "c2"}

NoCall ==
    [pc |-> "idle", request |-> NoRequest, template |-> NoTemplate,
     rule_ids |-> <<>>, unique_blocks |-> <<>>, position |-> 0,
     document_blocks |-> <<>>, reads |-> <<>>, persisted |-> FALSE,
     response |-> NoResponse]

ConcurrentRequests ==
    {[template_id |-> "tpl",
      context |-> [k \in Keys |-> IF k = "degree" THEN IntV(1) ELSE Absent],
      title |-> "Widerspruch"],
     [template_id |-> "tpl", context |-> EmptyContext, title |-> NoTitle],
     [template_id |-> MissingTemplateId, context |-> EmptyContext, title |-> NoTitle]}

(***************************************************************************)
(* AssemblyService.assemble_document, one call from request to response.   *)
(* uuid is the generated document id, driver_ok whether the driver         *)
(* completes the insert, rule_list the order in which the rule store       *)
(* returns the rules, rule_ids the order of list(set(...)).  One client    *)
(* request is followed from the stores of Init to its response.            *)
(***************************************************************************)
assembled_document_with_engine_context(req, template, rule_ids, blockStore, uuid) ==
    LET blocks_to_include == template_block_ids(template, req.context) \o rule_ids
        unique_blocks == dict_fromkeys(blocks_to_include)
        document_blocks == build_document_blocks(unique_blocks, blockStore)
    IN  [id |-> uuid,
         title |-> IF req.title # NoTitle THEN req.title
                   ELSE "Document from " \o template.name,
         template_id |-> req.template_id,
         status |-> "assembled",
         blocks |-> document_blocks,
         context |-> [k \in Keys |-> DictGet(req.context, k)]]

assembled_document(req, template, rule_ids, blockStore, uuid) ==
    LET blocks_to_include == template_block_ids(template, req.context) \o rule_ids
        unique_blocks == dict_fromkeys(blocks_to_include)
        document_blocks == build_document_blocks(unique_blocks, blockStore)
    IN  [id |-> uuid,
         title |-> IF req.title # NoTitle THEN req.title
                   ELSE "Document from " \o template.name,
         template_id |-> req.template_id,
         status |-> "assembled",
         blocks |-> document_blocks,
         context |-> req.context]

AssembleDocument ==
    /\ response = NoResponse
    /\ \E req \in Requests, uuid \in DocIds, driver_ok \in BOOLEAN :
        /\ request' = req
        /\ IF get_template(templates, req.template_id) = NoTemplate
           THEN /\ response' = Raised("ValueError: template not found")
                /\ UNCHANGED documents
           ELSE \E rule_list \in get_enabled_rules(rules) :
                  IF evaluate_all_rules_raises(rule_list, req.context)
                  THEN /\ response' = Raised("TypeError")
                       /\ UNCHANGED documents
                  ELSE \E rule_ids \in get_blocks_to_include(rule_list, req.context) :
                         LET document == assembled_document(
                                 req, get_template(templates, req.template_id), rule_ids, blocks, uuid)
                         IN  /\ documents' = create_document(documents, document, driver_ok)
                             /\ response' = [status |-> "ok",
                                             document |-> document,
                                             blocks_included |-> Len(document.blocks),
                                             rules_applied |-> Len(rule_ids)]
    /\ UNCHANGED <<templates, rules, blocks, evaluation_context, result, calls>>
    /\ UNCHANGED service_vars

Next == AssembleDocument

(***************************************************************************)
(* The stores and objects of the other services (block graph, rate         *)
(* limiter, version store, action reducer) before any of their calls.      *)
(***************************************************************************)
NoGraph == [nodes |-> {}, edges |-> {}]

NoRelated ==
    [call |-> "", block_id |-> "", max_depth |-> 0, status |-> 0,
     ids |-> {}, blocks |-> {}]

GraphIdle ==
    /\ graph = NoGraph
    /\ deleted = <<>>
    /\ related = NoRelated

LimiterIdle ==
    /\ memory_store = <<>>
    /\ clock = 0
    /\ history = <<>>

NoVersionCall ==
    [op |-> "", block_id |-> "", version |-> 0, pc |-> "done", outcome |-> ""]

VersionIdle ==
    /\ versions = <<>>
    /\ version_calls = [c \in Calls |-> NoVersionCall]

StateKeys == {"x", "included_blocks", "excluded_blocks"}
EmptyState == [k \in StateKeys |-> Absent]

NoReducerInput == [actions |-> <<>>, state |-> EmptyState]

NoApplied ==
    [called |-> FALSE, raised |-> FALSE, new_state |-> EmptyState,
     state |-> EmptyState, actions |-> <<>>,
     again_raised |-> FALSE, again |-> EmptyState]

ReducerIdle ==
    /\ input_state = NoReducerInput
    /\ applied = NoApplied

ServicesIdle == GraphIdle /\ LimiterIdle /\ VersionIdle /\ ReducerIdle

(***************************************************************************)
(* Store contents the calls are explored on.  Templates, rules and blocks  *)
(* are written by create_template, create_rule and create_block before the *)
(* request; three families keep the product finite: one rich in section    *)
(* block lists, one rich in rules, one rich in section condition maps.     *)
(* The document store already holds one Document of an earlier assembly.   *)
(***************************************************************************)
TemplateName == "Vorlage"
Section(block_ids, condition_map) == [blocks |-> block_ids, conditions |-> condition_map]
Template(section_list) == [id |-> "tpl", name |-> TemplateName, sections |-> section_list]
NoConditions == [k \in Keys |-> Absent]

Condition(field, operator, value) == [field |-> field, operator |-> operator, value |-> value]
Action(type, target) == [type |-> type, target |-> target]
Rule(id, priority, enabled, operator, condition_list, action_list) ==
    [id |-> id, priority |-> priority, enabled |-> enabled,
     condition_group |-> [operator |-> operator, conditions |-> condition_list],
     actions |-> action_list]

\* every block store over BlockIds; a stored block carries its own body
BlockBody(id) ==
    IF id = "b1" THEN [content |-> "Absatz 1", level |-> 1]
    ELSE [content |-> "Absatz 2", level |-> 2]
Block(id) == [id |-> id, content |-> BlockBody(id).content, level |-> BlockBody(id).level]
BlockStores == {[b \in present |-> Block(b)] : present \in SUBSET BlockIds}

ExpectedValues == {Null, IntV(0), IntV(1)}
ConditionMaps == [Keys -> ExpectedValues \cup {Absent}]

ConditionInputs ==
    {Condition("degree", ">", IntV(0)),
     Condition("flag", "<", IntV(1)),
     Condition("degree", ">=", Null)}
ActionInputs ==
    {Action("include_block", "b1"), Action("include_block", "b2"),
     Action("exclude_block", "b2"), Action("set_variable", "b1")}

RuleInputs ==
    {Rule("r1", 0, enabled, operator, condition_list, action_list) :
        enabled \in BOOLEAN,
        operator \in {"and", "or"},
        condition_list \in SeqsUpTo(ConditionInputs, MaxConditions),
        action_list \in SeqsUpTo(ActionInputs, MaxActions)}

AlwaysRule == Rule("r2", 0, TRUE, "and", <<>>, <<Action("include_block", "b1")>>)
DegreeRule ==
    Rule("r2", 1, TRUE, "and", <<Condition("degree", ">", IntV(0))>>,
         <<Action("include_block", "b2")>>)

RuleStoreOf(rule_set) == [r \in {x.id : x \in rule_set} |-> CHOOSE x \in rule_set : x.id = r]

\* a document assembled earlier, while the block store was still empty
PriorDocument ==
    [id |-> "doc_1", title |-> "Document from " \o TemplateName, template_id |-> "tpl",
     status |-> "assembled", blocks |-> <<>>, context |-> EmptyContext]

TotalBlocks(section_list) == Len(Concat([i \in DOMAIN section_list |-> section_list[i].blocks]))

InitSections ==
    /\ \E section_list \in SeqsUpTo({Section(bs, NoConditions) :
                                      bs \in SeqsUpTo(BlockIds, MaxTemplateBlocks)},
                                   MaxSections) :
          /\ TotalBlocks(section_list) <= MaxTemplateBlocks
          /\ templates = [t \in TemplateIds |-> Template(section_list)]
    /\ \E rule_set \in {{}, {AlwaysRule}, {DegreeRule}} :
          rules = RuleStoreOf(rule_set)
    /\ blocks \in BlockStores

InitRules ==
    /\ templates = [t \in TemplateIds |-> Template(<<Section(<<"b1">>, NoConditions)>>)]
    /\ \E first \in RuleInputs, rest \in {{}, {AlwaysRule}} :
          rules = RuleStoreOf({first} \cup rest)
    /\ blocks \in BlockStores

InitConditions ==
    /\ \E condition_map \in ConditionMaps,
          tail \in {<<>>, <<Section(<<"b2">>, NoConditions)>>} :
          templates = [t \in TemplateIds |->
                         Template(<<Section(<<"b1">>, condition_map)>> \o tail)]
    /\ rules = RuleStoreOf({})
    /\ blocks = [b \in BlockIds |-> Block(b)]

Init ==
    /\ InitSections \/ InitRules \/ InitConditions
    /\ documents = [d \in {"doc_1"} |-> PriorDocument]
    /\ request = NoRequest
    /\ response = NoResponse
    /\ evaluation_context = EmptyContext
    /\ result = NoResult
    /\ calls = [c \in Calls |-> NoCall]
    /\ ServicesIdle

Spec == Init /\ [][Next]_vars

(***************************************************************************)
(* Direct calls of the rule engine: evaluate_condition,                    *)
(* evaluate_condition_group and evaluate_rule on a condition, group or     *)
(* rule of the store, and get_blocks_to_include on the whole store, each   *)
(* against the context of Init.  result records which call was made, on    *)
(* what, whether it raised, and what it returned.                          *)
(***************************************************************************)
EvaluateCondition ==
    /\ result = NoResult
    /\ \E r \in DOMAIN rules :
          \E i \in DOMAIN rules[r].condition_group.conditions :
            LET condition == rules[r].condition_group.conditions[i]
            IN  result' = [NoResult EXCEPT
                    !.call = "evaluate_condition",
                    !.rule_id = r,
                    !.index = i,
                    !.raised = evaluate_condition_raises(condition, evaluation_context),
                    !.returned =
                        IF evaluate_condition_raises(condition, evaluation_context)
                        THEN FALSE
                        ELSE evaluate_condition(condition, evaluation_context)]
    /\ UNCHANGED <<templates, rules, blocks, documents, request, response,
                   evaluation_context, calls>>
    /\ UNCHANGED service_vars

EvaluateConditionGroup ==
    /\ result = NoResult
    /\ \E r \in DOMAIN rules :
          LET condition_group == rules[r].condition_group
          IN  result' = [NoResult EXCEPT
                  !.call = "evaluate_condition_group",
                  !.rule_id = r,
                  !.raised =
                      evaluate_condition_group_raises(condition_group, evaluation_context),
                  !.returned =
                      IF evaluate_condition_group_raises(condition_group, evaluation_context)
                      THEN FALSE
                      ELSE evaluate_condition_group(condition_group, evaluation_context)]
    /\ UNCHANGED <<templates, rules, blocks, documents, request, response,
                   evaluation_context, calls>>
    /\ UNCHANGED service_vars

EvaluateRule ==
    /\ result = NoResult
    /\ \E r \in DOMAIN rules :
          result' = [NoResult EXCEPT
              !.call = "evaluate_rule",
              !.rule_id = r,
              !.raised = evaluate_rule_raises(rules[r], evaluation_context),
              !.evaluation = IF evaluate_rule_raises(rules[r], evaluation_context)
                             THEN NoEvaluation
                             ELSE evaluate_rule(rules[r], evaluation_context)]
    /\ UNCHANGED <<templates, rules, blocks, documents, request, response,
                   evaluation_context, calls>>
    /\ UNCHANGED service_vars

GetBlocksToInclude ==
    /\ result = NoResult
    /\ \E rule_list \in get_enabled_rules(rules) :
          IF evaluate_all_rules_raises(rule_list, evaluation_context)
          THEN result' = [NoResult EXCEPT !.call = "get_blocks_to_include", !.raised = TRUE]
          ELSE \E block_ids \in get_blocks_to_include(rule_list, evaluation_context) :
                 result' = [NoResult EXCEPT
                     !.call = "get_blocks_to_include",
                     !.block_ids = block_ids]
    /\ UNCHANGED <<templates, rules, blocks, documents, request, response,
                   evaluation_context, calls>>
    /\ UNCHANGED service_vars

\* evaluate_all_rules over the list the rule store returns
EvaluateAllRules ==
    /\ result = NoResult
    /\ \E rule_list \in get_enabled_rules(rules) :
          result' = IF evaluate_all_rules_raises(rule_list, evaluation_context)
                    THEN [NoResult EXCEPT !.call = "evaluate_all_rules", !.raised = TRUE]
                    ELSE [NoResult EXCEPT
                             !.call = "evaluate_all_rules",
                             !.results = evaluate_all_rules(rule_list, evaluation_context)]
    /\ UNCHANGED <<templates, rules, blocks, documents, request, response,
                   evaluation_context, calls>>
    /\ UNCHANGED service_vars

EngineNext ==
    \/ EvaluateCondition
    \/ EvaluateConditionGroup
    \/ EvaluateRule
    \/ GetBlocksToInclude
    \/ EvaluateAllRules

(***************************************************************************)
(* Rules and contexts the engine is called on: one family rich in          *)
(* operators and value types, one rich in condition groups, one rich in    *)
(* rule stores.                                                            *)
(***************************************************************************)
\* the strings are "ab", "b", "", "a", "ba" (97 is "a", 98 is "b")
FieldValues ==
    {Null, BoolV(FALSE), IntV(0), IntV(1),
     StrV(<<>>), StrV(<<97, 98>>), StrV(<<98>>),
     ListV(<<>>), ListV(<<IntV(1), StrV(<<97>>)>>), ListV(<<IntV(0)>>),
     TupleV(<<IntV(1)>>)}

TargetValues ==
    {Null, IntV(1),
     StrV(<<>>), StrV(<<97>>), StrV(<<98, 97>>),
     ListV(<<IntV(1), StrV(<<98>>)>>), ListV(<<IntV(0)>>), ListV(<<Null>>)}

IncludeB1 == <<Action("include_block", "b1")>>

InitOperators ==
    /\ \E operator \in RuleOperator, value \in TargetValues :
          rules = RuleStoreOf({Rule("r1", 0, TRUE, "and",
                                    <<Condition("flag", operator, value)>>, IncludeB1)})
    /\ \E value \in FieldValues \cup {Absent} :
          evaluation_context = [k \in Keys |-> IF k = "flag" THEN value ELSE Absent]

GroupConditionInputs ==
    {Condition("flag", "==", IntV(1)),
     Condition("degree", "!=", IntV(1)),
     Condition("degree", "<", IntV(1)),
     Condition("flag", ">", Null)}

InitGroups ==
    /\ \E enabled \in BOOLEAN,
          operator \in {"and", "or", "=="},
          condition_list \in SeqsUpTo(GroupConditionInputs, MaxGroupConditions),
          action_list \in {<<>>, IncludeB1} :
          rules = RuleStoreOf({Rule("r1", 0, enabled, operator, condition_list, action_list)})
    /\ evaluation_context \in Contexts

StoreRuleInputs(id, priority) ==
    {Rule(id, priority, enabled, "and", condition_list, action_list) :
        enabled \in BOOLEAN,
        condition_list \in {<<>>,
                            <<Condition("flag", "==", IntV(1))>>,
                            <<Condition("flag", ">", Null)>>},
        action_list \in SeqsUpTo(ActionInputs, MaxRuleActions)}

InitStore ==
    /\ \E first \in StoreRuleInputs("r1", 1),
          rest \in {{}, {AlwaysRule}, {DegreeRule}} :
          rules = RuleStoreOf({first} \cup rest)
    /\ evaluation_context \in Contexts

EngineInit ==
    /\ InitOperators \/ InitGroups \/ InitStore
    /\ templates = [t \in TemplateIds |-> Template(<<>>)]
    /\ blocks = [b \in BlockIds |-> Block(b)]
    /\ documents = [d \in {"doc_1"} |-> PriorDocument]
    /\ request = NoRequest
    /\ response = NoResponse
    /\ result = NoResult
    /\ calls = [c \in Calls |-> NoCall]
    /\ ServicesIdle

EngineSpec == EngineInit /\ [][EngineNext]_vars

(***************************************************************************)
(* Concurrent assemblies.  Each call of assemble_document runs its store   *)
(* operations one at a time: the template and rule reads, one get_block    *)
(* per candidate id, then the insert; other calls, update_block and        *)
(* delete_block may run between any two of them.  reads is the history of  *)
(* what get_block returned to the call, persisted whether its insert took  *)
(* effect.                                                                 *)
(***************************************************************************)
StartAssembly(c) ==
    /\ calls[c].pc = "idle"
    /\ \E req \in ConcurrentRequests :
          LET template == get_template(templates, req.template_id)
          IN  IF template = NoTemplate
              THEN calls' = [calls EXCEPT ![c] =
                      [NoCall EXCEPT !.pc = "failed", !.request = req,
                                     !.response = Raised("ValueError: template not found")]]
              ELSE \E rule_list \in get_enabled_rules(rules) :
                     IF evaluate_all_rules_raises(rule_list, req.context)
                     THEN calls' = [calls EXCEPT ![c] =
                             [NoCall EXCEPT !.pc = "failed", !.request = req,
                                            !.response = Raised("TypeError")]]
                     ELSE \E rule_ids \in get_blocks_to_include(rule_list, req.context) :
                            calls' = [calls EXCEPT ![c] =
                                [NoCall EXCEPT
                                    !.pc = "blocks",
                                    !.request = req,
                                    !.template = template,
                                    !.rule_ids = rule_ids,
                                    !.unique_blocks = dict_fromkeys(
                                        template_block_ids(template, req.context) \o rule_ids)]]
    /\ UNCHANGED <<templates, rules, blocks, documents, request, response,
                   evaluation_context, result>>
    /\ UNCHANGED service_vars

ReadBlock(c) ==
    /\ calls[c].pc = "blocks"
    /\ calls[c].position < Len(calls[c].unique_blocks)
    /\ LET block == get_block(blocks, calls[c].unique_blocks[calls[c].position + 1])
       IN  calls' = [calls EXCEPT ![c] =
               [@ EXCEPT
                   !.position = @ + 1,
                   !.reads = Append(@, block),
                   !.document_blocks =
                       IF block # NoBlock
                       THEN Append(@, DocumentBlock(block, calls[c].position))
                       ELSE @]]
    /\ UNCHANGED <<templates, rules, blocks, documents, request, response,
                   evaluation_context, result>>
    /\ UNCHANGED service_vars

SaveDocument(c) ==
    /\ calls[c].pc = "blocks"
    /\ calls[c].position = Len(calls[c].unique_blocks)
    /\ \E uuid \in DocIds, driver_ok \in BOOLEAN :
          LET document == Document(calls[c].request, calls[c].template,
                                   calls[c].document_blocks, uuid)
          IN  /\ documents' = create_document(documents, document, driver_ok)
              /\ calls' = [calls EXCEPT ![c] =
                     [@ EXCEPT
                         !.pc = "done",
                         !.persisted = insert_succeeds(documents, document, driver_ok),
                         !.response = [status |-> "ok",
                                       document |-> document,
                                       blocks_included |-> Len(document.blocks),
                                       rules_applied |-> Len(calls[c].rule_ids)]]]
    /\ UNCHANGED <<templates, rules, blocks, request, response, evaluation_context, result>>
    /\ UNCHANGED service_vars

UpdateBlock ==
    /\ \E block_id \in BlockIds, update_dict \in BlockUpdates :
          blocks' = update_block(blocks, block_id, update_dict)
    /\ UNCHANGED <<templates, rules, documents, request, response,
                   evaluation_context, result, calls>>
    /\ UNCHANGED service_vars

DeleteBlock ==
    /\ \E block_id \in BlockIds : blocks' = delete_block(blocks, block_id)
    /\ UNCHANGED <<templates, rules, documents, request, response,
                   evaluation_context, result, calls>>
    /\ UNCHANGED service_vars

ConcurrentNext ==
    \/ \E c \in Calls : StartAssembly(c)
    \/ \E c \in Calls : ReadBlock(c)
    \/ \E c \in Calls : SaveDocument(c)
    \/ UpdateBlock
    \/ DeleteBlock

\* the template lists b1, the rule adds b2 for a context with degree > 0;
\* the document store is empty, so both ids of DocIds are fresh
ConcurrentInit ==
    /\ templates = [t \in TemplateIds |-> Template(<<Section(<<"b1">>, NoConditions)>>)]
    /\ rules = RuleStoreOf({DegreeRule})
    /\ blocks = [b \in BlockIds |-> Block(b)]
    /\ documents = [d \in {} |-> NoDocument]
    /\ request = NoRequest
    /\ response = NoResponse
    /\ evaluation_context = EmptyContext
    /\ result = NoResult
    /\ calls = [c \in Calls |-> NoCall]
    /\ ServicesIdle

ConcurrentSpec == ConcurrentInit /\ [][ConcurrentNext]_vars

(***************************************************************************)
(* Vocabulary of the properties                                            *)
(***************************************************************************)
Succeeded == response.status = "ok"
Doc == response.document
DocBlockIds == [i \in DOMAIN Doc.blocks |-> Doc.blocks[i].block_id]
Resolved(block_id) == block_id \in DOMAIN blocks
RequestedTemplate == templates[request.template_id]

\* the targets of include_block actions of the enabled rules whose condition
\* group matches the request context
MatchedRuleTargets ==
    {a.target : a \in UNION {
        {r.actions[i] : i \in {j \in DOMAIN r.actions : r.actions[j].type = "include_block"}} :
        r \in {rules[x] : x \in {y \in DOMAIN rules :
                  /\ rules[y].enabled
                  /\ evaluate_condition_group(rules[y].condition_group, request.context)}}}}

\* a section passes the gate when each expected value equals what
\* context.get(key) yields
SectionPasses(section) ==
    \A k \in Keys :
        section.conditions[k] # Absent =>
            section.conditions[k] =
                (IF request.context[k] = Absent THEN Null ELSE request.context[k])

\* the block ids listed by the sections that pass the gate, in template order
SelectedSectionIds ==
    LET sections == RequestedTemplate.sections
    IN  Concat([i \in DOMAIN sections |->
                  IF SectionPasses(sections[i]) THEN sections[i].blocks ELSE <<>>])

\* some enabled rule's condition evaluation raises on the request context
RuleEvaluationRaises ==
    \E r \in DOMAIN rules :
        rules[r].enabled /\ evaluate_condition_group_raises(rules[r].condition_group, request.context)

\* xs without the elements seen earlier in xs and without unresolved ids
FirstResolvedOccurrences(xs) ==
    LET keep == SelectSeq([i \in 1..Len(xs) |-> i],
                          LAMBDA i : Resolved(xs[i]) /\ \A j \in 1..(i - 1) : xs[j] # xs[i])
    IN  [k \in DOMAIN keep |-> xs[keep[k]]]

FirstIndex(xs, x) == CHOOSE i \in DOMAIN xs : xs[i] = x /\ \A j \in 1..(i - 1) : xs[j] # x

(***************************************************************************)
(* C1: in every successful assembly the order values of the returned       *)
(* Document's blocks, read in list order, are exactly 0, 1, ..., n-1.      *)
(***************************************************************************)
C1_OrderContiguous ==
    Succeeded => \A i \in DOMAIN Doc.blocks : Doc.blocks[i].order = i - 1

(***************************************************************************)
(* C2: in every successful assembly no two DocumentBlocks share a block_id *)
(* and the block_id sequence is the merged candidate list (included        *)
(* sections' blocks, then the rule-contributed ids in the order the rule   *)
(* engine returned them) reduced to the first occurrence of each id, with  *)
(* the unresolved ids removed.                                             *)
(***************************************************************************)
C2_DedupFirstOccurrence ==
    Succeeded =>
        /\ \A i, j \in DOMAIN DocBlockIds : i # j => DocBlockIds[i] # DocBlockIds[j]
        /\ \E returned \in Orderings(MatchedRuleTargets) :
              DocBlockIds = FirstResolvedOccurrences(SelectedSectionIds \o returned)

C2_Witness ==
    /\ Succeeded
    /\ Len(Doc.blocks) = 2
    /\ \E i, j \in DOMAIN SelectedSectionIds :
          i < j /\ SelectedSectionIds[i] = SelectedSectionIds[j]
    /\ MatchedRuleTargets \cap Range(SelectedSectionIds) # {}

(***************************************************************************)
(* C3: a request whose template id does not resolve fails with the         *)
(* template-not-found error and leaves the document store unchanged.       *)
(***************************************************************************)
C3_MissingTemplate ==
    [][(response' # response /\ request'.template_id \notin DOMAIN templates)
        => (response'.status = "ValueError: template not found" /\ documents' = documents)]_vars

C3_Witness ==
    /\ response.status = "ValueError: template not found"
    /\ request.template_id = MissingTemplateId
    /\ DOMAIN documents # {}

(***************************************************************************)
(* C4: a candidate id the block store cannot resolve does not fail the     *)
(* assembly; the Document holds no block for it and blocks_included is the *)
(* number of DocumentBlocks, i.e. of distinct candidate ids that resolved. *)
(***************************************************************************)
C4_UnresolvedDropped ==
    /\ (response.status # "none"
        /\ request.template_id \in DOMAIN templates
        /\ ~RuleEvaluationRaises) => Succeeded
    /\ Succeeded =>
        /\ \A i \in DOMAIN DocBlockIds : Resolved(DocBlockIds[i])
        /\ response.blocks_included = Len(Doc.blocks)
        /\ response.blocks_included =
              Cardinality({b \in Range(SelectedSectionIds) \cup MatchedRuleTargets : Resolved(b)})

C4_Witness ==
    /\ Succeeded
    /\ \E b \in Range(SelectedSectionIds) : ~Resolved(b)
    /\ \E b \in MatchedRuleTargets : Resolved(b)
    /\ response.blocks_included = 1

(***************************************************************************)
(* C5: the resolvable target of an include_block action of an enabled,     *)
(* matching rule is in the returned Document, also when no template        *)
(* section lists it.                                                       *)
(***************************************************************************)
C5_RuleInclusion ==
    Succeeded =>
        \A b \in MatchedRuleTargets : Resolved(b) => b \in Range(DocBlockIds)

C5_Witness ==
    /\ Succeeded
    /\ \E b \in MatchedRuleTargets :
          /\ Resolved(b)
          /\ b \in Range(DocBlockIds)
          /\ \A i \in DOMAIN RequestedTemplate.sections :
                b \notin Range(RequestedTemplate.sections[i].blocks)

(***************************************************************************)
(* C6: a section with a condition map contributes its blocks iff every key *)
(* of the map is a key of the context with an equal value (a missing key   *)
(* excludes the section whatever the expected value); a section without a  *)
(* condition map always contributes.                                       *)
(***************************************************************************)
ClaimedPasses(section) ==
    \A k \in DictKeys(section.conditions) :
        request.context[k] # Absent /\ request.context[k] = section.conditions[k]

C6_SectionGate ==
    Succeeded =>
        \A b \in BlockIds :
            Resolved(b) =>
                (b \in Range(DocBlockIds) <=>
                    \/ b \in MatchedRuleTargets
                    \/ \E i \in DOMAIN RequestedTemplate.sections :
                          /\ ClaimedPasses(RequestedTemplate.sections[i])
                          /\ b \in Range(RequestedTemplate.sections[i].blocks))

(***************************************************************************)
(* C7: the blocks contributed by template sections appear in the Document  *)
(* in section order and, within a section, in list order, each id at its   *)
(* first occurrence; the order values increase along the list, so sorting  *)
(* by order reproduces the sequence.                                       *)
(***************************************************************************)
C7_SectionOrder ==
    Succeeded =>
        /\ \A b \in Range(SelectedSectionIds) : Resolved(b) => b \in Range(DocBlockIds)
        /\ \A i, j \in DOMAIN DocBlockIds :
              (DocBlockIds[i] \in Range(SelectedSectionIds)
               /\ DocBlockIds[j] \in Range(SelectedSectionIds)) =>
                  (i < j <=> FirstIndex(SelectedSectionIds, DocBlockIds[i])
                               < FirstIndex(SelectedSectionIds, DocBlockIds[j]))
        /\ \A i, j \in DOMAIN Doc.blocks :
              i < j => Doc.blocks[i].order < Doc.blocks[j].order

C7_Witness ==
    /\ Succeeded
    /\ Len(RequestedTemplate.sections) = 2
    /\ SelectedSectionIds = <<"b2", "b1">>
    /\ DocBlockIds = <<"b2", "b1">>

(***************************************************************************)
(* C8: every successful call adds exactly one new Document to the store,   *)
(* under an id the store did not hold, with status ASSEMBLED, the request  *)
(* context and the returned blocks; get_document on the returned id yields *)
(* the returned Document.                                                  *)
(***************************************************************************)
C8_DocumentPersisted ==
    [][response'.status = "ok" /\ response' # response =>
        LET id == response'.document.id
        IN  /\ id \notin DOMAIN documents
            /\ DOMAIN documents' = DOMAIN documents \cup {id}
            /\ \A d \in DOMAIN documents : documents'[d] = documents[d]
            /\ get_document(documents', id) = response'.document
            /\ response'.document.status = "assembled"
            /\ response'.document.context = request'.context]_vars

(***************************************************************************)
(* C9: when the document store save fails, the call does not return a      *)
(* successful response for a Document that was not persisted.              *)
(***************************************************************************)
C9_SaveFailureSurfaced ==
    Succeeded => get_document(documents, Doc.id) = Doc

(***************************************************************************)
(* C10: rules_applied is the number of distinct block ids targeted by      *)
(* include_block actions of enabled rules that matched, whether or not an  *)
(* id is also listed by the template or resolves in the block store.       *)
(***************************************************************************)
C10_RulesApplied ==
    Succeeded => response.rules_applied = Cardinality(MatchedRuleTargets)

C10_Witness ==
    /\ Succeeded
    /\ response.rules_applied = 1
    /\ Cardinality({r \in DOMAIN rules :
          /\ rules[r].enabled
          /\ evaluate_condition_group(rules[r].condition_group, request.context)
          /\ \E i \in DOMAIN rules[r].actions :
                rules[r].actions[i] = Action("include_block", "b1")}) = 2
    /\ "b1" \in Range(SelectedSectionIds)
    /\ ~Resolved("b1")

(***************************************************************************)
(* Vocabulary of the rule engine properties                                *)
(***************************************************************************)
Called(call) == result.call = call
CalledRule == rules[result.rule_id]
CalledGroup == CalledRule.condition_group
CalledCondition == CalledGroup.conditions[result.index]
FieldValue == evaluation_context[CalledCondition.field]

\* the member condition evaluates to true against the context
EvaluatesToTrue(condition) ==
    /\ ~evaluate_condition_raises(condition, evaluation_context)
    /\ evaluate_condition(condition, evaluation_context)

\* the rule is enabled and its condition group matches the context
EnabledAndMatching(rule) ==
    /\ rule.enabled
    /\ ~evaluate_condition_group_raises(rule.condition_group, evaluation_context)
    /\ evaluate_condition_group(rule.condition_group, evaluation_context)

IncludeTargets(rule) ==
    {rule.actions[i].target :
        i \in {j \in DOMAIN rule.actions : rule.actions[j].type = "include_block"}}

(***************************************************************************)
(* C13: evaluate_condition returns false and raises nothing, whatever the  *)
(* operator and the comparison value, when condition.field is not a key of *)
(* the context.                                                            *)
(***************************************************************************)
C13_MissingField ==
    (Called("evaluate_condition") /\ FieldValue = Absent) =>
        (~result.raised /\ result.returned = FALSE)

C13_Witness ==
    /\ Called("evaluate_condition")
    /\ FieldValue = Absent
    /\ CalledCondition.operator = "not_in"
    /\ CalledCondition.value = ListV(<<IntV(0)>>)
    /\ ~result.raised
    /\ ~result.returned

(***************************************************************************)
(* C14: evaluate_condition_group returns true for every context when the   *)
(* condition list is empty, for the operator AND as for OR.                *)
(***************************************************************************)
C14_EmptyGroup ==
    (/\ Called("evaluate_condition_group")
     /\ CalledGroup.conditions = <<>>
     /\ CalledGroup.operator \in {"and", "or"}) =>
        (~result.raised /\ result.returned = TRUE)

C14_Witness ==
    /\ Called("evaluate_condition_group")
    /\ CalledGroup.conditions = <<>>
    /\ CalledGroup.operator = "or"
    /\ DictKeys(evaluation_context) # {}
    /\ result.returned

(***************************************************************************)
(* C15: for a rule with enabled = false evaluate_rule returns matched =    *)
(* false and no actions, whatever the context, conditions and actions;     *)
(* every id returned by get_blocks_to_include is the target of an          *)
(* include_block action of an enabled rule.                                *)
(***************************************************************************)
C15_DisabledRule ==
    /\ (Called("evaluate_rule") /\ ~CalledRule.enabled) =>
          /\ ~result.raised
          /\ result.evaluation.rule_id = CalledRule.id
          /\ result.evaluation.matched = FALSE
          /\ result.evaluation.actions = <<>>
    /\ Called("get_blocks_to_include") =>
          \A b \in Range(result.block_ids) :
              \E r \in DOMAIN rules : rules[r].enabled /\ b \in IncludeTargets(rules[r])

C15_Witness ==
    /\ Called("evaluate_rule")
    /\ ~CalledRule.enabled
    /\ CalledGroup.conditions # <<>>
    /\ \A i \in DOMAIN CalledGroup.conditions : EvaluatesToTrue(CalledGroup.conditions[i])
    /\ CalledGroup.operator = "and"
    /\ CalledRule.actions # <<>>
    /\ ~result.evaluation.matched

(***************************************************************************)
(* C16: for a group with at least one condition, AND returns true exactly  *)
(* when every member condition evaluates to true and OR exactly when at    *)
(* least one does; an enabled rule's matched flag is that result and its   *)
(* actions are returned only when it matched.                              *)
(***************************************************************************)
GroupResultClaimed(condition_group) ==
    IF condition_group.operator = "and"
    THEN \A i \in DOMAIN condition_group.conditions :
            EvaluatesToTrue(condition_group.conditions[i])
    ELSE \E i \in DOMAIN condition_group.conditions :
            EvaluatesToTrue(condition_group.conditions[i])

NonEmptyAndOr(condition_group) ==
    condition_group.conditions # <<>> /\ condition_group.operator \in {"and", "or"}

C16_AndOr ==
    /\ (Called("evaluate_condition_group") /\ NonEmptyAndOr(CalledGroup)) =>
          (~result.raised /\ result.returned) = GroupResultClaimed(CalledGroup)
    /\ (Called("evaluate_rule") /\ CalledRule.enabled /\ NonEmptyAndOr(CalledGroup)) =>
          /\ (~result.raised /\ result.evaluation.matched) = GroupResultClaimed(CalledGroup)
          /\ result.evaluation.actions =
                (IF GroupResultClaimed(CalledGroup) THEN CalledRule.actions ELSE <<>>)

(***************************************************************************)
(* C17: evaluate_condition raises no exception and returns a boolean for   *)
(* every condition and context, incompatible operand types of the ordering *)
(* operators and operands without membership for in, not_in and contains   *)
(* included.                                                               *)
(***************************************************************************)
C17_NeverRaises ==
    Called("evaluate_condition") => ~result.raised

(***************************************************************************)
(* C18: evaluate_condition returns false for every context when the        *)
(* operator is none of the nine comparison operators (and, or), also when  *)
(* the field is present in the context.                                    *)
(***************************************************************************)
C18_UnknownOperator ==
    (Called("evaluate_condition") /\ CalledCondition.operator \notin ComparisonOperators) =>
        (~result.raised /\ result.returned = FALSE)

C18_Witness ==
    /\ Called("evaluate_condition")
    /\ CalledCondition.operator = "or"
    /\ FieldValue = IntV(1)
    /\ CalledCondition.value = IntV(1)
    /\ ~result.returned

(***************************************************************************)
(* C19: for contains with the field present, evaluate_condition returns    *)
(* true exactly when the context value is a list with the comparison value *)
(* as a member or a string with the comparison value as a substring, and   *)
(* false for a context value of any other type.                            *)
(***************************************************************************)
IsMember(x, list) == \E i \in DOMAIN list : list[i] = x

ContainsClaimed(field_value, target_value) ==
    \/ field_value.t = "list" /\ IsMember(target_value, field_value.v)
    \/ /\ field_value.t = "str"
       /\ target_value.t = "str"
       /\ \E i, j \in 0..Len(field_value.v) :
             i <= j /\ target_value.v = [k \in 1..(j - i) |-> field_value.v[i + k]]

C19_Contains ==
    (/\ Called("evaluate_condition")
     /\ CalledCondition.operator = "contains"
     /\ FieldValue # Absent) =>
        /\ ~result.raised
        /\ result.returned = ContainsClaimed(FieldValue, CalledCondition.value)

(***************************************************************************)
(* C20: get_blocks_to_include returns exactly the targets of the           *)
(* include_block actions of the enabled rules whose condition group        *)
(* matches the context, each once; targets of other action types and of    *)
(* unmatched rules do not appear.                                          *)
(***************************************************************************)
EngineMatchedTargets ==
    UNION {IncludeTargets(rules[r]) : r \in {x \in DOMAIN rules : EnabledAndMatching(rules[x])}}

C20_BlocksToInclude ==
    Called("get_blocks_to_include") =>
        /\ ~result.raised
        /\ Range(result.block_ids) = EngineMatchedTargets
        /\ Len(result.block_ids) = Cardinality(EngineMatchedTargets)

(***************************************************************************)
(* Vocabulary of the properties of concurrent assemblies                   *)
(***************************************************************************)
Done(c) == calls[c].pc = "done"
CallDoc(c) == calls[c].response.document

\* the positions of the candidate list at which get_block returned a block
FoundPositions(c) ==
    SelectSeq([i \in 1..Len(calls[c].reads) |-> i],
              LAMBDA i : calls[c].reads[i] # NoBlock)

\* the Document that the call's request, its reads and its id determine
DocumentFromReads(c) ==
    LET req == calls[c].request
        found == FoundPositions(c)
    IN  [id |-> CallDoc(c).id,
         title |-> IF req.title # NoTitle THEN req.title
                   ELSE "Document from " \o templates[req.template_id].name,
         template_id |-> req.template_id,
         status |-> "assembled",
         blocks |-> [k \in DOMAIN found |->
                       [block_id |-> calls[c].unique_blocks[found[k]],
                        content |-> calls[c].reads[found[k]].content,
                        order |-> found[k] - 1,
                        level |-> calls[c].reads[found[k]].level]],
         context |-> req.context]

(***************************************************************************)
(* C11: in every interleaving of concurrent assemble_document calls each   *)
(* call that returned has its own Document in the store, under an id no    *)
(* other call returned, no stored Document is overwritten or lost, and the *)
(* returned Document is determined by the call's request and its reads.    *)
(***************************************************************************)
C11_ConcurrentAssemblies ==
    \A c \in Calls :
        Done(c) =>
            /\ get_document(documents, CallDoc(c).id) = CallDoc(c)
            /\ \A other \in Calls \ {c} :
                  Done(other) => CallDoc(other).id # CallDoc(c).id
            /\ CallDoc(c) = DocumentFromReads(c)

(***************************************************************************)
(* C12: the content and level of each DocumentBlock are what get_block     *)
(* returned for its source block when the assembly read it, and the        *)
(* DocumentBlocks of the stored Document stay so whatever update_block and *)
(* delete_block do to the source block afterwards.                         *)
(***************************************************************************)
C12_ContentSnapshot ==
    \A c \in Calls :
        Done(c) =>
            LET found == FoundPositions(c)
            IN  /\ Len(CallDoc(c).blocks) = Len(found)
                /\ \A k \in DOMAIN found :
                      /\ CallDoc(c).blocks[k].block_id = calls[c].unique_blocks[found[k]]
                      /\ CallDoc(c).blocks[k].content = calls[c].reads[found[k]].content
                      /\ CallDoc(c).blocks[k].level = calls[c].reads[found[k]].level
                /\ calls[c].persisted =>
                      get_document(documents, CallDoc(c).id).blocks = CallDoc(c).blocks

C12_Witness ==
    \E c \in Calls :
        /\ Done(c)
        /\ calls[c].persisted
        /\ Len(documents[CallDoc(c).id].blocks) = 2
        /\ documents[CallDoc(c).id].blocks[1].block_id = "b1"
        /\ documents[CallDoc(c).id].blocks[1].content = "Absatz 1"
        /\ documents[CallDoc(c).id].blocks[2].level = 2
        /\ "b1" \in DOMAIN blocks
        /\ blocks["b1"].content = "Neufassung"
        /\ "b2" \notin DOMAIN blocks

(***************************************************************************)
(* app/repositories/neo4j_repo.py and the graph part of BlockService: the  *)
(* block graph holds one node per block and typed, directed edges.  The    *)
(* result of find_related_blocks is modelled by the set of the ids in the  *)
(* returned list; RETURN DISTINCT leaves the order unspecified.  related   *)
(* holds the answer of the latest call.                                    *)
(***************************************************************************)
GraphBlockIds == {"b1", "b2", "b3"}
TailIds == <<"b4", "b5", "b6", "b7">>
QueryIds == {"b1", "b3"}

\* Query(2, ge=1, le=5) of GET /blocks/{block_id}/related
MinDepth == 1
MaxDepth == 5
DepthInputs == (MinDepth - 1)..(MaxDepth + 1)

Edge(from, type, to) == [from |-> from, type |-> type, to |-> to]

\* parent = "" stands for None
BlockRelationships(references, parent, children, related_to) ==
    [references |-> references, parent |-> parent, children |-> children,
     related |-> related_to]

NoRelationships == BlockRelationships(<<>>, "", <<>>, <<>>)

\* MERGE (b:Block {id: $id})
create_block_node(g, block_id) == [g EXCEPT !.nodes = @ \cup {block_id}]

\* every MERGE of an edge follows two MATCHes: no edge unless both nodes exist
create_relationships(g, block_id, relationships) ==
    LET wanted ==
            (IF relationships.parent # ""
             THEN {Edge(block_id, "PARENT", relationships.parent)} ELSE {})
            \cup {Edge(block_id, "CHILD", c) : c \in Range(relationships.children)}
            \cup {Edge(block_id, "REFERENCES", r) : r \in Range(relationships.references)}
            \cup {Edge(block_id, "RELATED_TO", r) : r \in Range(relationships.related)}
    IN  [g EXCEPT !.edges =
            @ \cup {e \in wanted : e.from \in g.nodes /\ e.to \in g.nodes}]

EdgesAt(g, block_id) == {e \in g.edges : e.from = block_id \/ e.to = block_id}

delete_node_keeping_edges(g, block_id) ==
    [g EXCEPT !.nodes = @ \ {block_id}]

\* MATCH (b:Block {id: $block_id}) DETACH DELETE b
detach_delete_block(g, block_id) ==
    [nodes |-> g.nodes \ {block_id}, edges |-> g.edges \ EdgesAt(g, block_id)]

OtherEnd(e, node) == IF e.from = node THEN e.to ELSE e.from

\* end nodes of the paths (b)-[*1..k]-(related) that continue a path ending
\* in node: a path uses no relationship twice, in whatever direction
RECURSIVE PathEnds(_, _, _, _)
PathEnds(g, node, used, k) ==
    IF k <= 0 THEN {}
    ELSE UNION {{OtherEnd(e, node)} \cup PathEnds(g, OtherEnd(e, node), used \cup {e}, k - 1)
                : e \in EdgesAt(g, node) \ used}

\* MATCH path = (b:Block {id: $block_id})-[*1..$max_depth]-(related:Block)
\* RETURN DISTINCT related.id
find_related_blocks(g, block_id, max_depth) ==
    IF block_id \in g.nodes THEN PathEnds(g, block_id, {}, max_depth) ELSE {}

\* BlockService.get_related_blocks: the ids that Mongo resolves to a block
get_related_blocks(g, blockStore, block_id, max_depth) ==
    {id \in find_related_blocks(g, block_id, max_depth) :
        get_block(blockStore, id) # NoBlock}

Related(call, block_id, max_depth, status, ids, found) ==
    [call |-> call, block_id |-> block_id, max_depth |-> max_depth,
     status |-> status, ids |-> ids, blocks |-> found]

RelationshipInputs(block_id) ==
    {NoRelationships}
    \cup (IF block_id = "b1"
          THEN {BlockRelationships(<<"b1">>, "", <<>>, <<>>)} ELSE {})
    \cup (IF block_id = "b2"
          THEN {BlockRelationships(<<>>, "b1", <<>>, <<>>),
                BlockRelationships(<<"b1">>, "b1", <<>>, <<>>)} ELSE {})
    \cup (IF block_id = "b3"
          THEN {BlockRelationships(<<>>, "b2", <<>>, <<>>),
                BlockRelationships(<<>>, "b2", <<"b4">>, <<>>),
                BlockRelationships(<<>>, "", <<"b1">>, <<"b2">>)} ELSE {})

\* BlockService.create_block: Mongo insert (refused for an id in use), node,
\* relationships; the initial version it writes goes to block_versions, the
\* collection VersionSpec follows, and a failure of that write is swallowed
CreateBlock(block_id, relationships) ==
    /\ block_id \notin DOMAIN blocks
    /\ blocks' = [b \in DOMAIN blocks \cup {block_id} |->
                    IF b = block_id THEN Block(b) ELSE blocks[b]]
    /\ graph' = create_relationships(create_block_node(graph, block_id),
                                     block_id, relationships)
    /\ deleted' = [b \in DOMAIN deleted \ {block_id} |-> deleted[b]]
    /\ related' = Related("create_block", block_id, 0, 0, {}, {})
    /\ UNCHANGED <<assembly_vars, limiter_vars, version_vars, reducer_vars>>

\* BlockService.delete_block: Neo4j first, then Mongo; it succeeds when both
\* stores held the block
DeleteGraphBlock(block_id) ==
    /\ graph' = detach_delete_block(graph, block_id)
    /\ blocks' = delete_block(blocks, block_id)
    /\ deleted' = IF block_id \in graph.nodes /\ block_id \in DOMAIN blocks
                  THEN [b \in DOMAIN deleted \cup {block_id} |->
                          IF b = block_id
                          THEN Cardinality(EdgesAt(graph, block_id))
                          ELSE deleted[b]]
                  ELSE deleted
    /\ related' = Related("delete_block", block_id, 0, 0, {}, {})
    /\ UNCHANGED <<assembly_vars, limiter_vars, version_vars, reducer_vars>>

\* BlockService.get_related_blocks with the ids of the repository call
GetRelatedBlocks(block_id, max_depth) ==
    /\ related' = Related("get_related_blocks", block_id, max_depth, 0,
                          find_related_blocks(graph, block_id, max_depth),
                          get_related_blocks(graph, blocks, block_id, max_depth))
    /\ UNCHANGED <<graph, deleted, blocks>>
    /\ UNCHANGED <<assembly_vars, limiter_vars, version_vars, reducer_vars>>

\* GET /blocks/{block_id}/related: a max_depth outside ge=1, le=5 is answered
\* with 422 before the handler runs
GetRelatedBlocksEndpoint(block_id, max_depth) ==
    /\ related' =
         IF max_depth < MinDepth \/ max_depth > MaxDepth
         THEN Related("GET /blocks/{block_id}/related", block_id, max_depth, 422, {}, {})
         ELSE Related("GET /blocks/{block_id}/related", block_id, max_depth, 200,
                      find_related_blocks(graph, block_id, max_depth),
                      get_related_blocks(graph, blocks, block_id, max_depth))
    /\ UNCHANGED <<graph, deleted, blocks>>
    /\ UNCHANGED <<assembly_vars, limiter_vars, version_vars, reducer_vars>>

GraphNext ==
    \/ \E b \in GraphBlockIds : \E r \in RelationshipInputs(b) : CreateBlock(b, r)
    \/ \E b \in GraphBlockIds : DeleteGraphBlock(b)
    \/ \E b \in QueryIds : \E d \in DepthInputs : GetRelatedBlocks(b, d)
    \/ \E b \in QueryIds : \E d \in DepthInputs : GetRelatedBlocksEndpoint(b, d)

\* b4..b7 created one after the other, each with the one before as parent
TailGraph ==
    [nodes |-> Range(TailIds),
     edges |-> {Edge(TailIds[i + 1], "PARENT", TailIds[i]) : i \in 1..(Len(TailIds) - 1)}]

AssemblyIdle ==
    /\ templates = [t \in TemplateIds |-> Template(<<>>)]
    /\ rules = RuleStoreOf({})
    /\ documents = [d \in {} |-> NoDocument]
    /\ request = NoRequest
    /\ response = NoResponse
    /\ evaluation_context = EmptyContext
    /\ result = NoResult
    /\ calls = [c \in Calls |-> NoCall]

GraphInit ==
    /\ graph \in {NoGraph, TailGraph}
    /\ blocks = [b \in graph.nodes |-> Block(b)]
    /\ deleted = <<>>
    /\ related = NoRelated
    /\ AssemblyIdle
    /\ LimiterIdle /\ VersionIdle /\ ReducerIdle

GraphSpec == GraphInit /\ [][GraphNext]_vars

(***************************************************************************)
(* Properties of the block graph.                                          *)
(***************************************************************************)
IsRelatedQuery ==
    related.call \in {"get_related_blocks", "GET /blocks/{block_id}/related"}

\* the blocks at most k hops from the blocks of S, edges taken in either direction
RECURSIVE WithinHops(_, _, _)
WithinHops(g, S, k) ==
    IF k <= 0 THEN S
    ELSE WithinHops(g, S \cup UNION {{e.from, e.to} : e \in {x \in g.edges : {x.from, x.to} \cap S # {}}}, k - 1)

\* C23: for every graph and every depth d in 1..5, find_related_blocks
\* returns exactly the ids other than block_id within d hops of block_id
C23_FindRelated ==
    (IsRelatedQuery /\ related.status # 422
        /\ related.max_depth \in MinDepth..MaxDepth)
    => related.ids =
         (IF related.block_id \in graph.nodes
          THEN WithinHops(graph, {related.block_id}, related.max_depth) ELSE {})
         \ {related.block_id}

Clamped(max_depth) ==
    IF max_depth < MinDepth THEN MinDepth
    ELSE IF max_depth > MaxDepth THEN MaxDepth ELSE max_depth

\* C24: every max_depth is clamped to [1,5]: the call returns what the
\* clamped depth returns and no block more than 5 hops from the source
C24_DepthClamped ==
    IsRelatedQuery
    => /\ related.status # 422
       /\ related.blocks =
            get_related_blocks(graph, blocks, related.block_id,
                               Clamped(related.max_depth))
       /\ related.ids \subseteq WithinHops(graph, {related.block_id}, MaxDepth)

\* C25: a block deleted with success and not created again has no edge and
\* is in no answer of find_related_blocks / get_related_blocks
C25_DeletedUnrelated ==
    /\ \A b \in DOMAIN deleted : EdgesAt(graph, b) = {}
    /\ IsRelatedQuery
       => (related.ids \cup related.blocks) \cap DOMAIN deleted = {}

C25_Witness ==
    /\ IsRelatedQuery
    /\ related.ids # {}
    /\ \E b \in DOMAIN deleted : deleted[b] >= 2

(***************************************************************************)
(* RuleEngine.apply_actions.  A state is a dict over StateKeys; a list     *)
(* value holds block ids.  new_state = state.copy() is a shallow copy, so  *)
(* a list of new_state is at first the same object as the list of the      *)
(* caller's state, and a list stored by set_variable is the same object as *)
(* the value in the action's params: owner tells, per key, whose list      *)
(* new_state holds (-1 the caller's state, i > 0 the params of action i,   *)
(* 0 its own), and an append reaches the owner as well.                    *)
(***************************************************************************)
MaxReducerActions == 2

ParamAction(type, target, value) ==
    [type |-> type, target |-> target, params |-> [value |-> value]]

ListKey(type) ==
    IF type = "include_block" THEN "included_blocks" ELSE "excluded_blocks"

Reduction(new_state, state, actions, owner, raised) ==
    [new_state |-> new_state, state |-> state, actions |-> actions,
     owner |-> owner, raised |-> raised]

\* new_state[key].append(target), seen through every name of the list
append_always(acc, key, target) ==
    LET longer == ListV(Append(acc.new_state[key].v, target))
        who == acc.owner[key]
    IN  Reduction([acc.new_state EXCEPT ![key] = longer],
                  IF who = -1 THEN [acc.state EXCEPT ![key] = longer] ELSE acc.state,
                  IF who > 0 THEN [acc.actions EXCEPT ![who].params.value = longer]
                  ELSE acc.actions,
                  acc.owner, FALSE)

\* if action.target not in new_state[key]: new_state[key].append(target)
append_if_absent(acc, key, target) ==
    IF target \in Range(acc.new_state[key].v) THEN acc
    ELSE LET longer == ListV(Append(acc.new_state[key].v, target))
             who == acc.owner[key]
         IN  Reduction([acc.new_state EXCEPT ![key] = longer],
                       IF who = -1 THEN [acc.state EXCEPT ![key] = longer] ELSE acc.state,
                       IF who > 0 THEN [acc.actions EXCEPT ![who].params.value = longer]
                       ELSE acc.actions,
                       acc.owner, FALSE)

\* the loop body for action i; "in" on a value that is no container raises
apply_action(acc, i) ==
    LET action == acc.actions[i]
    IN  IF acc.raised THEN acc
        ELSE IF action.type = "set_variable"
        THEN LET value == DictGet(action.params, "value")
             IN  [acc EXCEPT !.new_state[action.target] = value,
                             !.owner[action.target] =
                                 IF value.t = "list" THEN i ELSE 0]
        ELSE IF action.type \in {"include_block", "exclude_block"}
        THEN LET key == ListKey(action.type)
                 held == IF acc.new_state[key] = Absent
                         THEN [acc EXCEPT !.new_state[key] = ListV(<<>>),
                                          !.owner[key] = 0]
                         ELSE acc
             IN  IF held.new_state[key].t # "list"
                 THEN [held EXCEPT !.raised = TRUE]
                 ELSE append_if_absent(held, key, action.target)
        ELSE acc

RECURSIVE apply_from(_, _)
apply_from(acc, i) ==
    IF i > Len(acc.actions) THEN acc
    ELSE apply_from(apply_action(acc, i), i + 1)

\* the call: what it returns (new_state, unless raised) and what it leaves
\* behind in the caller's state and in the actions
apply_actions(actions, state) ==
    apply_from(Reduction(state, state, actions,
                         [k \in StateKeys |->
                            IF state[k].t = "list" THEN -1 ELSE 0],
                         FALSE), 1)

ReducerValues ==
    {Absent, Null, IntV(1), ListV(<<>>), ListV(<<"b1">>), ListV(<<"b1", "b1">>)}

ReducerStates ==
    {s \in [StateKeys -> ReducerValues] :
        /\ s["x"] \in {Absent, IntV(1)}
        /\ s["excluded_blocks"] \in {Absent, ListV(<<"b1">>)}}

ReducerActionInputs ==
    {ParamAction("set_variable", "x", IntV(1)),
     ParamAction("set_variable", "x", IntV(2)),
     ParamAction("set_variable", "x", Absent),
     ParamAction("set_variable", "included_blocks", ListV(<<"b2">>)),
     ParamAction("include_block", "b1", Absent),
     ParamAction("include_block", "b2", Absent),
     ParamAction("exclude_block", "b1", Absent),
     ParamAction("log", "b1", Absent)}

\* state = apply_actions(actions, state), then the same actions once more on
\* the returned state
ApplyActions ==
    /\ ~applied.called
    /\ LET first == apply_actions(input_state.actions, input_state.state)
           second == apply_actions(first.actions, first.new_state)
       IN  applied' =
             [called |-> TRUE, raised |-> first.raised,
              new_state |-> IF first.raised THEN EmptyState ELSE first.new_state,
              state |-> first.state, actions |-> first.actions,
              again_raised |-> ~first.raised /\ second.raised,
              again |-> IF first.raised \/ second.raised THEN EmptyState
                        ELSE second.new_state]
    /\ UNCHANGED input_state
    /\ UNCHANGED <<assembly_vars, blocks, graph_vars, limiter_vars, version_vars>>

ReducerNext == ApplyActions

ReducerInit ==
    /\ input_state \in [actions : SeqsUpTo(ReducerActionInputs, MaxReducerActions),
                        state : ReducerStates]
    /\ applied = NoApplied
    /\ AssemblyIdle
    /\ blocks = [b \in BlockIds |-> Block(b)]
    /\ GraphIdle /\ LimiterIdle /\ VersionIdle

ReducerSpec == ReducerInit /\ [][ReducerNext]_vars

(***************************************************************************)
(* Properties of apply_actions.                                            *)
(***************************************************************************)
Occurrences(list, target) ==
    Cardinality({i \in DOMAIN list : list[i] = target})

OccursOnce(value, target) ==
    value.t = "list" /\ Occurrences(value.v, target) = 1

\* C22 as stated: for every action list and state, every set_variable value
\* is in the result, every include/exclude target occurs exactly once in
\* its list, and a second application returns the same state
C22_Reducer ==
    applied.called
    => /\ ~applied.raised
       /\ \A i \in DOMAIN input_state.actions :
            LET action == input_state.actions[i]
            IN  /\ action.type = "set_variable"
                   => applied.new_state[action.target] = DictGet(action.params, "value")
                /\ action.type \in {"include_block", "exclude_block"}
                   => OccursOnce(applied.new_state[ListKey(action.type)], action.target)
       /\ ~applied.again_raised
       /\ applied.again = applied.new_state

DuplicateFree(value) ==
    value.t = "list" /\ \A i, j \in DOMAIN value.v : value.v[i] = value.v[j] => i = j

\* the lists of the state are lists without duplicates and set_variable
\* leaves the two list keys alone
ReducerInputWellFormed ==
    /\ \A k \in {"included_blocks", "excluded_blocks"} :
          input_state.state[k] = Absent \/ DuplicateFree(input_state.state[k])
    /\ \A i \in DOMAIN input_state.actions :
          input_state.actions[i].type = "set_variable"
          => input_state.actions[i].target \notin {"included_blocks", "excluded_blocks"}

LastSetVariable(i) ==
    \A j \in DOMAIN input_state.actions :
        (j > i /\ input_state.actions[j].type = "set_variable")
        => input_state.actions[j].target # input_state.actions[i].target

\* C22, amended: for well-formed inputs the call returns, the last
\* set_variable of a target decides result[target], every include/exclude
\* target occurs exactly once, and a second application changes nothing
C22_ReducerAmended ==
    (applied.called /\ ReducerInputWellFormed)
    => /\ ~applied.raised
       /\ \A i \in DOMAIN input_state.actions :
            LET action == input_state.actions[i]
            IN  /\ (action.type = "set_variable" /\ LastSetVariable(i))
                   => applied.new_state[action.target] = DictGet(action.params, "value")
                /\ action.type \in {"include_block", "exclude_block"}
                   => OccursOnce(applied.new_state[ListKey(action.type)], action.target)
       /\ ~applied.again_raised
       /\ applied.again = applied.new_state

C22_Witness ==
    /\ applied.called
    /\ ReducerInputWellFormed
    /\ input_state.state["included_blocks"] = ListV(<<"b1">>)
    /\ input_state.actions = <<ParamAction("include_block", "b1", Absent),
                               ParamAction("set_variable", "x", IntV(2))>>
    /\ applied.new_state["included_blocks"] = ListV(<<"b1">>)
    /\ applied.new_state["x"] = IntV(2)

\* C28: apply_actions leaves the state passed in unchanged, the contents of
\* its included_blocks and excluded_blocks lists included
C28_InputUnchanged ==
    (applied.called /\ ~applied.raised) => applied.state = input_state.state

(***************************************************************************)
(* app/middleware/rate_limiter.py, in-memory backend.  clock is the value  *)
(* of time.time(), which does not run backwards here; several calls may    *)
(* read the same value.  A call runs without suspension, so calls of       *)
(* different tasks interleave call by call.  history lists the calls made: *)
(* key, time, the limit argument and the answer.                           *)
(***************************************************************************)
MaxClock == 3
MaxCalls == 4

\* RateLimiter(default_limit=2, window_seconds=2)
default_limit == 2
window_seconds == 2

RateKeys == {"user:1", "ip:10.0.0.2"}

\* the limit argument: None or an int
LimitInputs == {Null} \cup {IntV(n) : n \in 0..default_limit}

\* limit = limit or self.default_limit
limit_or_default(limit) ==
    IF limit = Null \/ limit.v = 0 THEN default_limit ELSE limit.v

\* self.memory_store[key] of the defaultdict(list)
stored_timestamps(store, key) ==
    IF key \in DOMAIN store THEN store[key] ELSE <<>>

\* [ts for ts in timestamps if ts > window_start]
recent_timestamps(timestamps, window_start) ==
    SelectSeq(timestamps, LAMBDA ts : ts > window_start)

\* _check_memory: the answer and the store it leaves
check_memory(store, key, limit, current_time, window_start) ==
    LET timestamps == recent_timestamps(stored_timestamps(store, key), window_start)
        allowed == ~(Len(timestamps) >= limit)
    IN  [allowed |-> allowed,
         store |-> [k \in DOMAIN store \cup {key} |->
                      IF k = key
                      THEN IF allowed THEN Append(timestamps, current_time)
                           ELSE timestamps
                      ELSE store[k]]]

is_allowed(store, key, limit, current_time) ==
    check_memory(store, key, limit_or_default(limit), current_time,
                 current_time - window_seconds)

\* _cleanup_memory: old timestamps and then empty keys are dropped
cleanup_memory(store, current_time) ==
    LET kept == [k \in DOMAIN store |->
                   recent_timestamps(store[k], current_time - window_seconds)]
    IN  [k \in {x \in DOMAIN kept : kept[x] # <<>>} |-> kept[k]]

\* every call of a run passes the same limit argument
IsAllowed(key, limit) ==
    /\ Len(history) < MaxCalls
    /\ history # <<>> => limit = history[1].limit
    /\ LET answer == is_allowed(memory_store, key, limit, clock)
       IN  /\ memory_store' = answer.store
           /\ history' = Append(history, [key |-> key, time |-> clock,
                                          limit |-> limit,
                                          allowed |-> answer.allowed])
    /\ UNCHANGED clock
    /\ UNCHANGED <<assembly_vars, blocks, graph_vars, version_vars, reducer_vars>>

CleanupMemory ==
    /\ memory_store' = cleanup_memory(memory_store, clock)
    /\ UNCHANGED <<clock, history>>
    /\ UNCHANGED <<assembly_vars, blocks, graph_vars, version_vars, reducer_vars>>

Tick ==
    /\ clock < MaxClock
    /\ clock' = clock + 1
    /\ UNCHANGED <<memory_store, history>>
    /\ UNCHANGED <<assembly_vars, blocks, graph_vars, version_vars, reducer_vars>>

LimiterNext ==
    \/ \E key \in RateKeys : \E limit \in LimitInputs : IsAllowed(key, limit)
    \/ CleanupMemory
    \/ Tick

LimiterInit ==
    /\ LimiterIdle
    /\ AssemblyIdle
    /\ blocks = [b \in BlockIds |-> Block(b)]
    /\ GraphIdle /\ VersionIdle /\ ReducerIdle

LimiterSpec == LimiterInit /\ [][LimiterNext]_vars

(***************************************************************************)
(* Properties of the rate limiter.                                         *)
(***************************************************************************)
\* the limit L of a call: the limit argument, default_limit when it is None
limit_unless_none(limit) ==
    IF limit = Null THEN default_limit ELSE limit.v

\* the earlier allowed calls for the key of call i that lie in its window
EarlierAllowed(i) ==
    {j \in 1..(i - 1) :
        /\ history[j].key = history[i].key
        /\ history[j].allowed
        /\ history[j].time > history[i].time - window_seconds}

\* C27: with a fixed limit L a call is allowed exactly when fewer than L
\* earlier allowed calls for the same key lie within the last window_seconds
C27_SlidingWindow ==
    \A i \in DOMAIN history :
        history[i].allowed
        <=> Cardinality(EarlierAllowed(i)) < limit_unless_none(history[i].limit)

(***************************************************************************)
(* app/services/version_service.py over the block_versions collection,     *)
(* which has no unique index.  versions lists the stored documents in the  *)
(* order of their insertion.  The API server and the import scripts are    *)
(* separate clients of the same collection, so calls interleave between    *)
(* two store operations of one call; version_calls holds each caller's     *)
(* call and the store operation it has reached.  find_one and delete_one   *)
(* take the first matching document.                                       *)
(***************************************************************************)
MaxVersions == 3
MaxVersionNumber == 2

VersionNumbers == 1..MaxVersionNumber
VersionBlockIds == {"b1"}

BlockVersion(block_id, version, is_current) ==
    [block_id |-> block_id, version |-> version, is_current |-> is_current]

VersionCall(op, block_id, version, pc, outcome) ==
    [op |-> op, block_id |-> block_id, version |-> version, pc |-> pc,
     outcome |-> outcome]

\* update_many({"block_id": block_id}, {"$set": {"is_current": False}})
reset_is_current(stored, block_id) ==
    [i \in DOMAIN stored |->
        IF stored[i].block_id = block_id
        THEN [stored[i] EXCEPT !.is_current = FALSE] ELSE stored[i]]

Matching(stored, block_id, version) ==
    SelectSeq([i \in DOMAIN stored |-> i],
              LAMBDA i : stored[i].block_id = block_id /\ stored[i].version = version)

\* find_one({"block_id": block_id, "version": version}): 0 for None
get_version(stored, block_id, version) ==
    IF Matching(stored, block_id, version) = <<>> THEN 0
    ELSE Head(Matching(stored, block_id, version))

\* delete_one({"block_id": block_id, "version": version})
delete_one(stored, block_id, version) ==
    LET found == get_version(stored, block_id, version)
    IN  IF found = 0 THEN stored
        ELSE [i \in 1..(Len(stored) - 1) |->
                IF i < found THEN stored[i] ELSE stored[i + 1]]

\* create_version, first store operation
CreateVersionUpdateMany(c, block_id, version) ==
    /\ version_calls[c].pc = "done"
    /\ Len(versions) < MaxVersions
    /\ versions' = reset_is_current(versions, block_id)
    /\ version_calls' = [version_calls EXCEPT ![c] =
            VersionCall("create_version", block_id, version, "insert_one", "")]
    /\ UNCHANGED <<assembly_vars, blocks, graph_vars, limiter_vars, reducer_vars>>

\* create_version, second store operation: the new version, is_current=True
CreateVersionInsertOne(c) ==
    /\ version_calls[c].op = "create_version"
    /\ version_calls[c].pc = "insert_one"
    /\ versions' = Append(versions,
            BlockVersion(version_calls[c].block_id, version_calls[c].version, TRUE))
    /\ version_calls' = [version_calls EXCEPT ![c].pc = "done", ![c].outcome = "version"]
    /\ UNCHANGED <<assembly_vars, blocks, graph_vars, limiter_vars, reducer_vars>>

\* restore_version: None for an unknown version; for a stored one
\* "await self.mongo.get_block(block_id)" awaits the value of a plain
\* function and raises TypeError before anything is written
RestoreVersion(c, block_id, version) ==
    /\ version_calls[c].pc = "done"
    /\ version_calls' = [version_calls EXCEPT ![c] =
            VersionCall("restore_version", block_id, version, "done",
                        IF get_version(versions, block_id, version) = 0
                        THEN "None" ELSE "TypeError")]
    /\ UNCHANGED versions
    /\ UNCHANGED <<assembly_vars, blocks, graph_vars, limiter_vars, reducer_vars>>

\* delete_version, first store operation: get_version and the check
DeleteVersionGetVersion(c, block_id, version) ==
    /\ version_calls[c].pc = "done"
    /\ LET found == get_version(versions, block_id, version)
       IN  version_calls' = [version_calls EXCEPT ![c] =
             IF found = 0 \/ versions[found].is_current
             THEN VersionCall("delete_version", block_id, version, "done", "False")
             ELSE VersionCall("delete_version", block_id, version, "delete_one", "")]
    /\ UNCHANGED versions
    /\ UNCHANGED <<assembly_vars, blocks, graph_vars, limiter_vars, reducer_vars>>

\* delete_version, second store operation
DeleteVersionDeleteOne(c) ==
    /\ version_calls[c].op = "delete_version"
    /\ version_calls[c].pc = "delete_one"
    /\ LET found == get_version(versions, version_calls[c].block_id,
                                version_calls[c].version)
       IN  /\ versions' = delete_one(versions, version_calls[c].block_id,
                                     version_calls[c].version)
           /\ version_calls' = [version_calls EXCEPT
                  ![c].pc = "done",
                  ![c].outcome = IF found = 0 THEN "False"
                                 ELSE IF versions[found].is_current
                                 THEN "True, current version removed"
                                 ELSE "True"]
    /\ UNCHANGED <<assembly_vars, blocks, graph_vars, limiter_vars, reducer_vars>>

VersionNext ==
    \/ \E c \in Calls, b \in VersionBlockIds, v \in VersionNumbers :
          CreateVersionUpdateMany(c, b, v)
    \/ \E c \in Calls : CreateVersionInsertOne(c)
    \/ \E c \in Calls, b \in VersionBlockIds, v \in VersionNumbers :
          RestoreVersion(c, b, v)
    \/ \E c \in Calls, b \in VersionBlockIds, v \in VersionNumbers :
          DeleteVersionGetVersion(c, b, v)
    \/ \E c \in Calls : DeleteVersionDeleteOne(c)

VersionInit ==
    /\ VersionIdle
    /\ AssemblyIdle
    /\ blocks = [b \in BlockIds |-> Block(b)]
    /\ GraphIdle /\ LimiterIdle /\ ReducerIdle

VersionSpec == VersionInit /\ [][VersionNext]_vars

(***************************************************************************)
(* Properties of the version store.                                        *)
(***************************************************************************)
NoVersionCallRunning == \A c \in Calls : version_calls[c].pc = "done"

VersionsOf(block_id) ==
    SelectSeq(versions, LAMBDA v : v.block_id = block_id)

\* C30: after any interleaving of create_version, restore_version and
\* delete_version calls every block with a stored version has exactly one
\* version with is_current = true, the most recently created one, and
\* delete_version never removes the current version
C30_OneCurrentVersion ==
    NoVersionCallRunning
    => /\ \A b \in VersionBlockIds :
            LET stored == VersionsOf(b)
            IN  stored # <<>>
                => /\ Cardinality({i \in DOMAIN stored : stored[i].is_current}) = 1
                   /\ stored[Len(stored)].is_current
       /\ \A c \in Calls : version_calls[c].outcome # "True, current version removed"

(***************************************************************************)
(* C21: evaluate_all_rules returns exactly one result per enabled rule of  *)
(* the store, each the result of evaluate_rule for that rule alone, in     *)
(* whatever order and with whatever priorities the store returns the       *)
(* rules; so the matched rules and the ids of get_blocks_to_include depend *)
(* on the rules and the context only.                                      *)
(***************************************************************************)
EnabledRuleIds == {r \in DOMAIN rules : rules[r].enabled}

C21_AllRulesEvaluated ==
    /\ Called("evaluate_all_rules")
       => /\ ~result.raised
          /\ Len(result.results) = Cardinality(EnabledRuleIds)
          /\ \A r \in EnabledRuleIds :
                \E i \in DOMAIN result.results :
                    /\ result.results[i] = evaluate_rule(rules[r], evaluation_context)
                    /\ \A j \in DOMAIN result.results :
                          result.results[j].rule_id = r => j = i
    /\ Called("get_blocks_to_include")
       => /\ ~result.raised
          /\ Range(result.block_ids) =
                UNION {IncludeTargets(rules[r]) :
                          r \in {x \in EnabledRuleIds :
                                    evaluate_rule(rules[x], evaluation_context).matched}}

(***************************************************************************)
(* C29: when condition.field is a key of the context, whatever its value,  *)
(* != returns the negation of what == returns for the same field and       *)
(* comparison value, and not_in the negation of what in returns.           *)
(***************************************************************************)
Counterpart(operator) == IF operator = "!=" THEN "==" ELSE "in"

C29_NegatedOperators ==
    (/\ Called("evaluate_condition")
     /\ FieldValue # Absent
     /\ CalledCondition.operator \in {"!=", "not_in"})
    => LET positive == [CalledCondition EXCEPT
                           !.operator = Counterpart(CalledCondition.operator)]
       IN  /\ ~result.raised
           /\ ~evaluate_condition_raises(positive, evaluation_context)
           /\ result.returned = ~evaluate_condition(positive, evaluation_context)

====
